---- MODULE Spec2Model ----
(***************************************************************************)
(* Model of the bitmap fixture generator script (src/unnamed/part_000):    *)
(* the functions createBMP and createBMP2, generalised over the            *)
(* width, the height and the pixel pattern.  The two functions differ only *)
(* in those three values, so one encoder parameterised by them models      *)
(* both.  A Buffer is a sequence of bytes; byte offset o of the source is  *)
(* index o + 1 of the sequence.                                            *)
(*                                                                         *)
(* The second half models the components of the web application, one       *)
(* record-valued variable each: FileDropzone, the four batch pages, the    *)
(* merge-PDF, image-to-PDF and PDF-to-image pages, the test page, the      *)
(* settings of the resize page and a call of convertImage.  Each has a     *)
(* specification of its own in which the others stay as they start.  An    *)
(* async handler is cut into steps at its awaits where other handlers can  *)
(* see or change the state in between.                                     *)
(***************************************************************************)
EXTENDS Integers, Sequences, FiniteSets

VARIABLES
    pc,        \* position of the script: "idle", "header", "loop", "thrown"
    width,     \* const width of the running call
    height,    \* const height of the running call
    pattern,   \* which function body runs: "gradient" (createBMP), "wave" (createBMP2)
    buffer,    \* const buffer = Buffer.alloc(fileSize)
    offset,    \* let offset
    x,         \* column counter of the inner for loop
    y,         \* row counter of the outer for loop
    p,         \* counter of the padding loop
    written,   \* the buffers returned so far, in call order (bmpBuffer, bmpBuffer2)
    dropzone,      \* the FileDropzone component: props, state, callbacks made
    batch,         \* a batch page: compress-image, convert-image, resize-image, reduce-pdf
    mergePage,     \* MergePdfPage
    imagePdfPage,  \* ImageToPdfPage
    pdfImagePage,  \* PdfToImagePage
    testPage,      \* TestPage
    resizePage,    \* ResizeImagePage: the settings and one resizeImage call
    convertCall    \* one call of convertImage of ConvertImagePage

bmpVars == <<pc, width, height, pattern, buffer, offset, x, y, p, written>>

pageVars ==
    <<dropzone, batch, mergePage, imagePdfPage, pdfImagePage, testPage,
      resizePage, convertCall>>

vars == <<bmpVars, pageVars>>

----------------------------------------------------------------------------
(* Bounds of the model *)

MaxWidth == 4
MaxHeight == 3
MaxNegWidth == 1
MaxNegHeight == 5

(* Program constants *)

HeaderBytes == 54
DibHeaderSize == 40
ColorPlanes == 1
BitsPerPixel == 24
Resolution == 2835
NumFixtures == 2
WaveBlue == 200

Pow8 == 256
Pow16 == 65536

Patterns == {"gradient", "wave"}
Widths == (0 - MaxNegWidth)..MaxWidth
Heights == (0 - MaxNegHeight)..MaxHeight

----------------------------------------------------------------------------
(* Sizes: lines 8-10 *)

\* a row size that forgets the padding to a multiple of 4
rowSizeUnpadded(w) == w * 3

\* a row size rounded down instead of up
rowSizeFloor(w) == ((w * 3) \div 4) * 4

\* Math.ceil((width * 3) / 4) * 4; for integers ceil(a/4) = floor((a+3)/4)
rowSize(w) == ((w * 3 + 3) \div 4) * 4

pixelDataSize(w, h) == rowSize(w) * h

\* a file size that forgets the 54 header bytes
fileSizeNoHeader(w, h) == pixelDataSize(w, h)

fileSize(w, h) == HeaderBytes + pixelDataSize(w, h)

\* a padding loop that never runs
paddingNone(w) == 0

\* const padding = rowSize - width * 3 (line 47)
padding(w) == rowSize(w) - w * 3

----------------------------------------------------------------------------
(* Pixel patterns *)

\* Math.floor(Math.sin(i / 10) * 127 + 128) for i = 0, 1, 2, ...
SinTable == <<128, 140, 153, 165, 177, 188, 199, 209, 219, 227, 234, 241>>

\* Math.floor(Math.cos(i / 10) * 127 + 128) for i = 0, 1, 2, ...
CosTable == <<255, 254, 252, 249, 244, 239, 232, 225, 216, 206, 196, 185>>

\* the gradient with a blue channel that depends on how many files exist
gradientStateful(col, row, w, h) ==
    [r |-> (255 * col) \div w,
     g |-> (255 * row) \div h,
     b |-> ((255 * (col + row)) \div (w + h) + Len(written)) % Pow8]

\* lines 38-40; Math.floor((a / b) * 255) = floor(255 * a / b) for the
\* integers 0 <= a < b in range
gradient(col, row, w, h) ==
    [r |-> (255 * col) \div w,
     g |-> (255 * row) \div h,
     b |-> (255 * (col + row)) \div (w + h)]

\* lines 92-94
wave(col, row, w, h) ==
    [r |-> SinTable[col + 1], g |-> CosTable[row + 1], b |-> WaveBlue]

colorAt(pat, col, row, w, h) ==
    IF pat = "gradient" THEN gradient(col, row, w, h) ELSE wave(col, row, w, h)

----------------------------------------------------------------------------
(* Buffer primitives.  Each returns [ok, buf]: ok = FALSE is a RangeError. *)

\* little-endian bytes of the unsigned value v, n bytes
RECURSIVE LEBytes(_, _)
LEBytes(v, n) == IF n = 0 THEN <<>> ELSE <<v % Pow8>> \o LEBytes(v \div Pow8, n - 1)

StoreBytes(buf, off, bytes) ==
    [i \in 1..Len(buf) |->
        IF i > off /\ i <= off + Len(bytes) THEN bytes[i - off] ELSE buf[i]]

\* Buffer.alloc(size): zero-filled, RangeError for a negative size
alloc(size) ==
    IF size < 0 THEN [ok |-> FALSE, buf |-> <<>>]
    ELSE [ok |-> TRUE, buf |-> [i \in 1..size |-> 0]]

\* the bounds check shared by the integer writes: the value is in the type's
\* range and the n bytes fit; otherwise RangeError
WriteInt(buf, v, off, n, inRange, bytes) ==
    IF ~inRange \/ off < 0 \/ off + n > Len(buf)
    THEN [ok |-> FALSE, buf |-> buf]
    ELSE [ok |-> TRUE, buf |-> StoreBytes(buf, off, bytes)]

writeUInt8(buf, v, off) == WriteInt(buf, v, off, 1, v >= 0 /\ v < Pow8, <<v>>)

writeUInt16LE(buf, v, off) ==
    WriteInt(buf, v, off, 2, v >= 0 /\ v < Pow16, LEBytes(v, 2))

\* the upper limit 2^32 - 1 lies above every integer of the model
writeUInt32LE(buf, v, off) == WriteInt(buf, v, off, 4, v >= 0, LEBytes(v, 4))

\* every integer of the model is within -2^31 .. 2^31 - 1; with the floor
\* division of \div and % the bytes of a negative v are its two's complement
writeInt32LE(buf, v, off) == WriteInt(buf, v, off, 4, TRUE, LEBytes(v, 4))

\* buffer.write('BM', off): writes what fits, RangeError only past the end
writeString(buf, bytes, off) ==
    IF off < 0 \/ off > Len(buf) THEN [ok |-> FALSE, buf |-> buf]
    ELSE [ok |-> TRUE, buf |-> StoreBytes(buf, off, bytes)]

Signature == <<66, 77>>

\* the header with the file-size and image-size fields exchanged
headerFieldsSizesSwapped(w, h) ==
    << [op |-> "str", v |-> 0, off |-> 0],
       [op |-> "u32", v |-> pixelDataSize(w, h), off |-> 2],
       [op |-> "u32", v |-> 0, off |-> 6],
       [op |-> "u32", v |-> HeaderBytes, off |-> 10],
       [op |-> "u32", v |-> DibHeaderSize, off |-> 14],
       [op |-> "i32", v |-> w, off |-> 18],
       [op |-> "i32", v |-> h, off |-> 22],
       [op |-> "u16", v |-> ColorPlanes, off |-> 26],
       [op |-> "u16", v |-> BitsPerPixel, off |-> 28],
       [op |-> "u32", v |-> 0, off |-> 30],
       [op |-> "u32", v |-> fileSize(w, h), off |-> 34],
       [op |-> "i32", v |-> Resolution, off |-> 38],
       [op |-> "i32", v |-> Resolution, off |-> 42],
       [op |-> "u32", v |-> 0, off |-> 46],
       [op |-> "u32", v |-> 0, off |-> 50] >>

\* the header with the image-size field left at the zero of Buffer.alloc
headerFieldsNoImageSize(w, h) ==
    << [op |-> "str", v |-> 0, off |-> 0],
       [op |-> "u32", v |-> fileSize(w, h), off |-> 2],
       [op |-> "u32", v |-> 0, off |-> 6],
       [op |-> "u32", v |-> HeaderBytes, off |-> 10],
       [op |-> "u32", v |-> DibHeaderSize, off |-> 14],
       [op |-> "i32", v |-> w, off |-> 18],
       [op |-> "i32", v |-> h, off |-> 22],
       [op |-> "u16", v |-> ColorPlanes, off |-> 26],
       [op |-> "u16", v |-> BitsPerPixel, off |-> 28],
       [op |-> "u32", v |-> 0, off |-> 30],
       [op |-> "i32", v |-> Resolution, off |-> 38],
       [op |-> "i32", v |-> Resolution, off |-> 42],
       [op |-> "u32", v |-> 0, off |-> 46],
       [op |-> "u32", v |-> 0, off |-> 50] >>

\* the header with width and height written at each other's offset
headerFieldsDimsSwapped(w, h) ==
    << [op |-> "str", v |-> 0, off |-> 0],
       [op |-> "u32", v |-> fileSize(w, h), off |-> 2],
       [op |-> "u32", v |-> 0, off |-> 6],
       [op |-> "u32", v |-> HeaderBytes, off |-> 10],
       [op |-> "u32", v |-> DibHeaderSize, off |-> 14],
       [op |-> "i32", v |-> h, off |-> 18],
       [op |-> "i32", v |-> w, off |-> 22],
       [op |-> "u16", v |-> ColorPlanes, off |-> 26],
       [op |-> "u16", v |-> BitsPerPixel, off |-> 28],
       [op |-> "u32", v |-> 0, off |-> 30],
       [op |-> "u32", v |-> pixelDataSize(w, h), off |-> 34],
       [op |-> "i32", v |-> Resolution, off |-> 38],
       [op |-> "i32", v |-> Resolution, off |-> 42],
       [op |-> "u32", v |-> 0, off |-> 46],
       [op |-> "u32", v |-> 0, off |-> 50] >>

\* lines 15-31 (72-86 in createBMP2): the header writes, in source order
headerFields(w, h) ==
    << [op |-> "str", v |-> 0, off |-> 0],
       [op |-> "u32", v |-> fileSize(w, h), off |-> 2],
       [op |-> "u32", v |-> 0, off |-> 6],
       [op |-> "u32", v |-> HeaderBytes, off |-> 10],
       [op |-> "u32", v |-> DibHeaderSize, off |-> 14],
       [op |-> "i32", v |-> w, off |-> 18],
       [op |-> "i32", v |-> h, off |-> 22],
       [op |-> "u16", v |-> ColorPlanes, off |-> 26],
       [op |-> "u16", v |-> BitsPerPixel, off |-> 28],
       [op |-> "u32", v |-> 0, off |-> 30],
       [op |-> "u32", v |-> pixelDataSize(w, h), off |-> 34],
       [op |-> "i32", v |-> Resolution, off |-> 38],
       [op |-> "i32", v |-> Resolution, off |-> 42],
       [op |-> "u32", v |-> 0, off |-> 46],
       [op |-> "u32", v |-> 0, off |-> 50] >>

applyWrite(buf, f) ==
    CASE f.op = "str" -> writeString(buf, Signature, f.off)
      [] f.op = "u16" -> writeUInt16LE(buf, f.v, f.off)
      [] f.op = "u32" -> writeUInt32LE(buf, f.v, f.off)
      [] f.op = "i32" -> writeInt32LE(buf, f.v, f.off)

\* the writes of fields[i..] one after the other; the first RangeError ends them
RECURSIVE writeAll(_, _, _)
writeAll(buf, fields, i) ==
    IF i > Len(fields) THEN [ok |-> TRUE, buf |-> buf]
    ELSE LET r == applyWrite(buf, fields[i])
         IN  IF r.ok THEN writeAll(r.buf, fields, i + 1) ELSE r

\* the three writeUInt8 calls of one pixel, each with offset++ (lines 42-44);
\* n counts the offset++ evaluated, the one of a throwing write included
writePixel(buf, off, c) ==
    LET r1 == writeUInt8(buf, c.b, off)
        r2 == writeUInt8(r1.buf, c.g, off + 1)
        r3 == writeUInt8(r2.buf, c.r, off + 2)
    IN  IF ~r1.ok THEN [ok |-> FALSE, buf |-> buf, n |-> 1]
        ELSE IF ~r2.ok THEN [ok |-> FALSE, buf |-> r1.buf, n |-> 2]
        ELSE [ok |-> r3.ok, buf |-> r3.buf, n |-> 3]

----------------------------------------------------------------------------
(* The script *)

\* the script has not started
BmpIdle ==
    /\ pc = "idle"
    /\ width = 0
    /\ height = 0
    /\ pattern = "gradient"
    /\ buffer = <<>>
    /\ offset = 0
    /\ x = 0
    /\ y = 0
    /\ p = 0
    /\ written = <<>>

\* createBMP() / createBMP2() entered: sizes computed, buffer allocated
Call(w, h, pat) ==
    /\ pc = "idle"
    /\ Len(written) < NumFixtures
    /\ LET a == alloc(fileSize(w, h))
       IN  /\ buffer' = a.buf
           /\ pc' = IF a.ok THEN "header" ELSE "thrown"
    /\ width' = w
    /\ height' = h
    /\ pattern' = pat
    /\ UNCHANGED <<offset, x, y, p, written>>
    /\ UNCHANGED pageVars

\* the fifteen header writes, then let offset = 54 and the loop's y = 0, x = 0
WriteHeader ==
    /\ pc = "header"
    /\ LET r == writeAll(buffer, headerFields(width, height), 1)
       IN  /\ buffer' = r.buf
           /\ pc' = IF r.ok THEN "loop" ELSE "thrown"
           /\ offset' = IF r.ok THEN HeaderBytes ELSE offset
    /\ x' = 0
    /\ y' = 0
    /\ p' = 0
    /\ UNCHANGED <<width, height, pattern, written>>
    /\ UNCHANGED pageVars

\* one pass of the inner loop: blue, green, red of colorAt(x, y)
WritePixel ==
    /\ pc = "loop"
    /\ y < height
    /\ x < width
    /\ LET r == writePixel(buffer, offset, colorAt(pattern, x, y, width, height))
       IN  /\ buffer' = r.buf
           /\ offset' = offset + r.n
           /\ pc' = IF r.ok THEN "loop" ELSE "thrown"
           /\ x' = IF r.ok THEN x + 1 ELSE x
    /\ UNCHANGED <<width, height, pattern, y, p, written>>
    /\ UNCHANGED pageVars

\* one pass of the padding loop
WritePadding ==
    /\ pc = "loop"
    /\ y < height
    /\ x >= width
    /\ p < padding(width)
    /\ LET r == writeUInt8(buffer, 0, offset)
       IN  /\ buffer' = r.buf
           /\ pc' = IF r.ok THEN "loop" ELSE "thrown"
           /\ p' = IF r.ok THEN p + 1 ELSE p
    /\ offset' = offset + 1
    /\ UNCHANGED <<width, height, pattern, x, y, written>>
    /\ UNCHANGED pageVars

\* the padding loop is over: y++ and the next row starts at x = 0
NextRow ==
    /\ pc = "loop"
    /\ y < height
    /\ x >= width
    /\ p >= padding(width)
    /\ y' = y + 1
    /\ x' = 0
    /\ p' = 0
    /\ UNCHANGED <<pc, width, height, pattern, buffer, offset, written>>
    /\ UNCHANGED pageVars

\* return buffer; the caller keeps it (bmpBuffer, bmpBuffer2) and the locals die
Return ==
    /\ pc = "loop"
    /\ y >= height
    /\ written' = Append(written,
            [width |-> width, height |-> height, pattern |-> pattern, data |-> buffer])
    /\ pc' = "idle"
    /\ width' = 0
    /\ height' = 0
    /\ pattern' = "gradient"
    /\ buffer' = <<>>
    /\ offset' = 0
    /\ x' = 0
    /\ y' = 0
    /\ p' = 0
    /\ UNCHANGED pageVars

Next ==
    \/ \E w \in Widths, h \in Heights, pat \in Patterns : Call(w, h, pat)
    \/ WriteHeader
    \/ WritePixel
    \/ WritePadding
    \/ NextRow
    \/ Return


----------------------------------------------------------------------------
(* What the claims speak of *)

\* the smallest multiple of 4 that is >= n
Ceil4(n) == CHOOSE s \in n..(n + 3) : s % 4 = 0

\* the row stride the format demands for a row of w pixels of 3 bytes
Stride(w) == Ceil4(w * 3)

ByteAt(d, off) == d[off + 1]

U16At(d, off) == ByteAt(d, off) + 256 * ByteAt(d, off + 1)

\* little-endian unsigned 32-bit read, for values below 2^31
U32At(d, off) ==
    ByteAt(d, off) + 256 * ByteAt(d, off + 1) + 65536 * ByteAt(d, off + 2)
        + 16777216 * ByteAt(d, off + 3)

\* little-endian signed 32-bit read
I32At(d, off) ==
    ByteAt(d, off) + 256 * ByteAt(d, off + 1) + 65536 * ByteAt(d, off + 2)
        + 16777216 * (IF ByteAt(d, off + 3) >= 128 THEN ByteAt(d, off + 3) - 256
                      ELSE ByteAt(d, off + 3))

\* the returned files of calls with positive width and height
Files == {i \in 1..Len(written) : written[i].width > 0 /\ written[i].height > 0}

\* the running call was given positive dimensions and is about to return
AtReturn == pc = "loop" /\ y >= height /\ width > 0 /\ height > 0

\* the colour of a pattern as the triple of bytes of one stored pixel
Bgr(c) == <<c.b, c.g, c.r>>

PixelBytes(d, off) == <<ByteAt(d, off), ByteAt(d, off + 1), ByteAt(d, off + 2)>>

----------------------------------------------------------------------------
\* C1: for positive width and height the returned buffer is exactly
\* 54 + rowStride * height bytes long, rowStride the smallest multiple of 4
\* that is >= width * 3, and the write cursor ends exactly at that length;
\* the 100x100 fixture is 30054 bytes and the 150x100 fixture 45254 bytes.
C1_OutputLength ==
    /\ \A i \in Files :
          Len(written[i].data) = 54 + Stride(written[i].width) * written[i].height
    /\ AtReturn =>
          /\ Len(buffer) = 54 + Stride(width) * height
          /\ offset = Len(buffer)
    /\ fileSize(100, 100) = 30054
    /\ fileSize(150, 100) = 45254

\* a 3x2 call (stride 12, one padding byte per row) is about to return
C1_Witness ==
    AtReturn /\ width = 3 /\ height = 2 /\ offset = 78 /\ Len(buffer) = 78

\* C2: stored scanline k of the output holds, for every column, the blue,
\* green and red bytes of colorAt(x, height-1-k): the first scanline of the
\* buffer is the one computed for y = height-1.
C2_StoredRowsBottomUp ==
    \A i \in Files :
        LET f == written[i]
        IN  \A k \in 0..(f.height - 1), col \in 0..(f.width - 1) :
                PixelBytes(f.data, 54 + k * Stride(f.width) + 3 * col)
                    = Bgr(colorAt(f.pattern, col, f.height - 1 - k, f.width, f.height))

\* what the loop does: stored scanline k holds the colours computed for y = k
C2_StoredRowsInLoopOrder ==
    \A i \in Files :
        LET f == written[i]
        IN  \A k \in 0..(f.height - 1), col \in 0..(f.width - 1) :
                PixelBytes(f.data, 54 + k * Stride(f.width) + 3 * col)
                    = Bgr(colorAt(f.pattern, col, k, f.width, f.height))

\* a standard bottom-up 24-bit decoder: dimensions from the info header,
\* pixel data from the offset the file header names, stored scanline k is
\* image row height-1-k counted from the top
DecodedWidth(d) == I32At(d, 18)

DecodedHeight(d) == I32At(d, 22)

DecodedPixel(d, col, row) ==
    LET at == U32At(d, 10)
              + (DecodedHeight(d) - 1 - row) * Ceil4(DecodedWidth(d) * 3) + 3 * col
    IN  [r |-> ByteAt(d, at + 2), g |-> ByteAt(d, at + 1), b |-> ByteAt(d, at)]

\* C3: decoding the produced file recovers the width and height given and,
\* for every pixel (x, y), exactly the RGB triple colorAt(x, y).
C3_RoundTrip ==
    \A i \in Files :
        LET f == written[i]
        IN  /\ DecodedWidth(f.data) = f.width
            /\ DecodedHeight(f.data) = f.height
            /\ \A col \in 0..(f.width - 1), row \in 0..(f.height - 1) :
                  DecodedPixel(f.data, col, row)
                      = colorAt(f.pattern, col, row, f.width, f.height)

\* C4: the little-endian uint32 at byte offset 2 of the output equals the
\* length of the output, for positive width and height.
C4_FileSizeField ==
    \A i \in Files : U32At(written[i].data, 2) = Len(written[i].data)

\* a 2x3 file (stride 8) has been returned with 78 in its size field
C4_Witness ==
    \E i \in Files :
        /\ written[i].width = 2
        /\ written[i].height = 3
        /\ U32At(written[i].data, 2) = 78

\* C5: the little-endian uint32 at byte offset 34 equals rowStride * height,
\* the number of bytes that follow the 54 header bytes.
C5_ImageSizeField ==
    \A i \in Files :
        LET f == written[i]
        IN  /\ U32At(f.data, 34) = Stride(f.width) * f.height
            /\ U32At(f.data, 34) = Len(f.data) - 54

\* a 4x3 file (stride 12, no padding) has been returned with 36 at offset 34
C5_Witness ==
    \E i \in Files :
        /\ written[i].width = 4
        /\ written[i].height = 3
        /\ U32At(written[i].data, 34) = 36

\* the header bytes that do not hold the width, the height or a size
FixedHeaderOffsets == (0..53) \ ((2..5) \cup (18..25) \cup (34..37))

\* C6: the first 54 bytes follow the fixed layout whatever the pattern: 'B',
\* 'M'; 0 at 6; 54 at 10; 40 at 14; width at 18 and height at 22; 1 at 26;
\* 24 at 28; 0 at 30; 2835 at 38 and 42; 0 at 46 and 50; and any two files
\* agree on every header byte outside the width, height and size fields.
C6_HeaderLayout ==
    /\ \A i \in Files :
          LET d == written[i].data
          IN  /\ ByteAt(d, 0) = 66
              /\ ByteAt(d, 1) = 77
              /\ U32At(d, 6) = 0
              /\ U32At(d, 10) = 54
              /\ U32At(d, 14) = 40
              /\ I32At(d, 18) = written[i].width
              /\ I32At(d, 22) = written[i].height
              /\ U16At(d, 26) = 1
              /\ U16At(d, 28) = 24
              /\ U32At(d, 30) = 0
              /\ I32At(d, 38) = 2835
              /\ I32At(d, 42) = 2835
              /\ U32At(d, 46) = 0
              /\ U32At(d, 50) = 0
    /\ \A i \in Files, j \in Files :
          \A o \in FixedHeaderOffsets :
              ByteAt(written[i].data, o) = ByteAt(written[j].data, o)

\* a gradient file and a wave file of different dimensions have been returned
C6_Witness ==
    /\ Len(written) = 2
    /\ written[1].pattern = "gradient" /\ written[1].width = 3 /\ written[1].height = 1
    /\ written[2].pattern = "wave" /\ written[2].width = 1 /\ written[2].height = 2
    /\ I32At(written[1].data, 18) = 3
    /\ I32At(written[2].data, 22) = 2

\* C7: in every scanline the last rowStride - width*3 bytes are zero, and no
\* pixel byte is ever written into a padding position: a pixel is written
\* only where all three of its bytes lie in the first width*3 bytes of a
\* scanline, and a padding byte only behind them.
C7_PaddingZero ==
    /\ \A i \in Files :
          LET f == written[i]
          IN  \A k \in 0..(f.height - 1) :
                  \A o \in (54 + k * Stride(f.width) + f.width * 3)
                             ..(54 + (k + 1) * Stride(f.width) - 1) :
                      ByteAt(f.data, o) = 0
    /\ (pc = "loop" /\ width > 0 /\ y < height /\ x < width) =>
          ((offset - 54) % Stride(width)) + 3 <= width * 3
    /\ (pc = "loop" /\ width > 0 /\ y < height /\ x >= width /\ p < padding(width)) =>
          ((offset - 54) % Stride(width)) >= width * 3

\* a wave file of width 1 (3 pixel bytes and 1 padding byte per row) has
\* been returned: its rows are 200, g, 128, 0
C7_Witness ==
    \E i \in Files :
        /\ written[i].width = 1
        /\ written[i].height = 2
        /\ written[i].pattern = "wave"
        /\ ByteAt(written[i].data, 56) = 128
        /\ ByteAt(written[i].data, 57) = 0
        /\ ByteAt(written[i].data, 61) = 0

C9_RowStride ==
    (pc \in {"header", "loop"} /\ width > 0) =>
        /\ rowSize(width) % 4 = 0
        /\ rowSize(width) >= width * 3
        /\ rowSize(width) < width * 3 + 4
        /\ padding(width) \in 0..3
        /\ (pc = "loop" /\ y < height /\ x >= width /\ p >= padding(width)) =>
               offset - 54 = (y + 1) * rowSize(width)

\* the second row of a width-2 image (stride 8, padding 2) is complete
C9_Witness ==
    /\ pc = "loop" /\ width = 2 /\ height > 1 /\ y = 1 /\ x = 2 /\ p = 2
    /\ offset = 70

\* C10: the encoder never throws, whatever integers width and height are.
C10_NeverThrows == pc # "thrown"

\* C10 as amended: with width >= 0 and height >= 0 the encoder does not
\* throw and returns 54 + rowSize * height bytes (the bare 54-byte header
\* when either is zero); a RangeError needs a negative dimension.
C10_NoThrowNonNegative ==
    /\ pc = "thrown" => (width < 0 \/ height < 0)
    /\ \A i \in 1..Len(written) :
          (written[i].width >= 0 /\ written[i].height >= 0) =>
              Len(written[i].data) = 54 + Stride(written[i].width) * written[i].height
    /\ \A i \in 1..Len(written) :
          (written[i].width = 0 \/ written[i].height = 0) => Len(written[i].data) = 54

\* a call with width 0 and a positive height has returned the bare header
C10_Witness ==
    \E i \in 1..Len(written) :
        /\ written[i].width = 0
        /\ written[i].height = 2
        /\ Len(written[i].data) = 54

----------------------------------------------------------------------------
(* FileDropzone (src/unnamed/part_005).  A File is named by a number; the  *)
(* FileList of a drop or of the file input is null or a sequence of files. *)

MaxDrop == 52
MaxProcessCalls == 2

DefaultMaxFiles == 10
BatchMaxFiles == 20
ImageMaxFiles == 50

\* the maxFiles props the pages pass, and the default
MaxFilesProps == {DefaultMaxFiles, BatchMaxFiles, ImageMaxFiles}

NullFileList == [null |-> TRUE, list |-> <<>>]

\* the FileLists a drop or a choice can carry: null, or files 1..n in order
FileLists ==
    {NullFileList} \cup {[null |-> FALSE, list |-> [i \in 1..n |-> i]] : n \in 0..MaxDrop}

Min(a, b) == IF a < b THEN a ELSE b

\* Array.prototype.slice(0, end) for end >= 0
slice(arr, end) == SubSeq(arr, 1, Min(end, Len(arr)))

\* a processFiles that ignores the multiple prop
processFilesIgnoresMultiple(dz, files) ==
    IF files.null THEN [dz EXCEPT !.files = files, !.calls = @ + 1]
    ELSE LET fileArray == slice(files.list, dz.maxFiles)
         IN  [dz EXCEPT !.files = files, !.calls = @ + 1,
                        !.selectedFiles = fileArray,
                        !.received = fileArray,
                        !.callbacks = @ + 1]

\* processFiles (lines 39-48); files and calls record the argument and the
\* number of calls, received and callbacks what onFilesSelected was given
processFiles(dz, files) ==
    IF files.null THEN [dz EXCEPT !.files = files, !.calls = @ + 1]
    ELSE LET fileArray == slice(files.list, IF dz.multiple THEN dz.maxFiles ELSE 1)
         IN  [dz EXCEPT !.files = files, !.calls = @ + 1,
                        !.selectedFiles = fileArray,
                        !.received = fileArray,
                        !.callbacks = @ + 1]

DropzoneInit ==
    dropzone \in
        [multiple : BOOLEAN, maxFiles : MaxFilesProps, isDragging : {FALSE},
         selectedFiles : {<<>>}, files : {NullFileList}, calls : {0},
         received : {<<>>}, callbacks : {0}]

DzHandleDragOver ==
    /\ dropzone' = [dropzone EXCEPT !.isDragging = TRUE]
    /\ UNCHANGED <<bmpVars, batch, mergePage, imagePdfPage, pdfImagePage, testPage,
                   resizePage, convertCall>>

DzHandleDragLeave ==
    /\ dropzone' = [dropzone EXCEPT !.isDragging = FALSE]
    /\ UNCHANGED <<bmpVars, batch, mergePage, imagePdfPage, pdfImagePage, testPage,
                   resizePage, convertCall>>

\* e.dataTransfer.files is a FileList, never null
DzHandleDrop(files) ==
    /\ dropzone.calls < MaxProcessCalls
    /\ ~files.null
    /\ dropzone' = processFiles([dropzone EXCEPT !.isDragging = FALSE], files)
    /\ UNCHANGED <<bmpVars, batch, mergePage, imagePdfPage, pdfImagePage, testPage,
                   resizePage, convertCall>>

\* e.target.files is FileList | null
DzHandleChange(files) ==
    /\ dropzone.calls < MaxProcessCalls
    /\ dropzone' = processFiles(dropzone, files)
    /\ UNCHANGED <<bmpVars, batch, mergePage, imagePdfPage, pdfImagePage, testPage,
                   resizePage, convertCall>>

\* the Clear all button, shown while files are listed
DzClearFiles ==
    /\ Len(dropzone.selectedFiles) > 0
    /\ dropzone' = [dropzone EXCEPT !.selectedFiles = <<>>]
    /\ UNCHANGED <<bmpVars, batch, mergePage, imagePdfPage, pdfImagePage, testPage,
                   resizePage, convertCall>>

NextDropzone ==
    \/ DzHandleDragOver
    \/ DzHandleDragLeave
    \/ \E files \in FileLists : DzHandleDrop(files)
    \/ \E files \in FileLists : DzHandleChange(files)
    \/ DzClearFiles

\* how many files processFiles may pass on
DzLimit(dz) == IF dz.multiple THEN dz.maxFiles ELSE 1

\* C15: processFiles hands its parent at most maxFiles files when multiple is
\* true and at most one when it is false; they are the first files of the
\* list in their order and are also stored as selectedFiles; a null list
\* makes no callback and changes no state.
C15_ProcessFiles ==
    [][ /\ dropzone'.callbacks # dropzone.callbacks =>
              /\ dropzone'.callbacks = dropzone.callbacks + 1
              /\ ~dropzone'.files.null
              /\ Len(dropzone'.received) <= DzLimit(dropzone)
              /\ Len(dropzone'.received) <= Len(dropzone'.files.list)
              /\ (Len(dropzone'.received) = DzLimit(dropzone)
                    \/ Len(dropzone'.received) = Len(dropzone'.files.list))
              /\ \A i \in 1..Len(dropzone'.received) :
                    dropzone'.received[i] = dropzone'.files.list[i]
              /\ dropzone'.selectedFiles = dropzone'.received
        /\ (dropzone'.calls # dropzone.calls /\ dropzone'.files.null) =>
              /\ dropzone'.callbacks = dropzone.callbacks
              /\ dropzone'.received = dropzone.received
              /\ dropzone'.selectedFiles = dropzone.selectedFiles
              /\ dropzone'.isDragging = dropzone.isDragging
        /\ dropzone'.calls # dropzone.calls =>
              (dropzone'.callbacks # dropzone.callbacks \/ dropzone'.files.null)
      ]_vars

\* 25 files were given to a dropzone with multiple and maxFiles 20, after
\* a null list had been given to it
C15_Witness ==
    /\ dropzone.multiple
    /\ dropzone.maxFiles = 20
    /\ Len(dropzone.files.list) = 25
    /\ dropzone.calls = 2
    /\ dropzone.callbacks = 1
    /\ Len(dropzone.received) = 20
    /\ dropzone.received[20] = 20

----------------------------------------------------------------------------
(* MergePdfPage (src/app/merge-pdf/page.tsx).  A chosen file either loads  *)
(* as a PDF with pageCount pages or makes PDFDocument.load throw.  Indices *)
(* are 1-based here; draggedIndex 0 stands for null.                       *)

MaxSelect == 1
MaxIntakes == 2
MaxMerges == 1
MaxEditLen == 2

\* the page counts a PDF can have
PageCounts == {1, 2}

PdfInputs ==
    {[loads |-> FALSE, pageCount |-> 1]}
        \cup {[loads |-> TRUE, pageCount |-> n] : n \in PageCounts}

SeqsUpTo(S, n) == UNION {[1..k -> S] : k \in 0..n}

\* what the user can drop: a few files of any kind, or more valid
\* one-page files than the dropzone lets through
PdfSelections ==
    SeqsUpTo(PdfInputs, MaxSelect)
        \cup {[i \in 1..(BatchMaxFiles + 1) |-> [loads |-> TRUE, pageCount |-> 1]]}

NoError == [kind |-> "null", count |-> 0]

\* the PdfFile objects handleFilesSelected pushes for the files that load,
\* with ids taken from firstId on
RECURSIVE loadedPdfs(_, _)
loadedPdfs(files, firstId) ==
    IF files = <<>> THEN <<>>
    ELSE IF Head(files).loads
         THEN <<[id |-> firstId, pageCount |-> Head(files).pageCount]>>
                  \o loadedPdfs(Tail(files), firstId + 1)
         ELSE loadedPdfs(Tail(files), firstId)

failedCountOf(files) == Len(SelectSeq(files, LAMBDA f : ~f.loads))

\* newPdfs.splice(draggedIndex, 1); newPdfs.splice(index, 0, draggedPdf)
spliceMove(arr, from, to) ==
    LET without == [i \in 1..(Len(arr) - 1) |-> IF i < from THEN arr[i] ELSE arr[i + 1]]
    IN  [i \in 1..Len(arr) |->
            IF i < to THEN without[i] ELSE IF i = to THEN arr[from] ELSE without[i - 1]]

RECURSIVE totalPagesOf(_)
totalPagesOf(list) ==
    IF list = <<>> THEN 0 ELSE Head(list).pageCount + totalPagesOf(Tail(list))

\* copyPages(pdf, pdf.getPageIndices()) then addPage for each, per listed PDF
RECURSIVE copyAllPages(_)
copyAllPages(list) ==
    IF list = <<>> THEN <<>>
    ELSE [k \in 1..Head(list).pageCount |-> <<Head(list).id, k>>]
             \o copyAllPages(Tail(list))

MergePageInit ==
    mergePage = [pdfs |-> <<>>, isLoading |-> FALSE, isMerging |-> FALSE,
                 draggedIndex |-> 0, error |-> NoError,
                 intakes |-> 0, nextId |-> 1, offered |-> 0,
                 captured |-> <<>>, shownTotal |-> 0, merges |-> 0,
                 attempted |-> 0, downloaded |-> FALSE, merged |-> <<>>]

MergeOthers == <<bmpVars, dropzone, batch, imagePdfPage, pdfImagePage, testPage,
                 resizePage, convertCall>>

\* handleFilesSelected (lines 21-51); files is what the dropzone passed on.
\* Between its awaits the handler works on its locals newPdfs and
\* failedCount only, and it appends to whatever pdfs then holds, so it is
\* taken as one step.
MgHandleFilesSelected(files) ==
    /\ mergePage.draggedIndex = 0
    /\ mergePage.intakes < MaxIntakes
    /\ LET newPdfs == loadedPdfs(files, mergePage.nextId)
           failedCount == failedCountOf(files)
       IN  mergePage' =
               [mergePage EXCEPT
                   !.error = IF failedCount > 0 /\ Len(newPdfs) = 0
                             THEN [kind |-> "failedToLoad", count |-> 0]
                             ELSE IF failedCount > 0
                                  THEN [kind |-> "couldNotBeLoaded", count |-> failedCount]
                                  ELSE NoError,
                   !.pdfs = @ \o newPdfs,
                   !.isLoading = FALSE,
                   !.intakes = @ + 1, !.offered = Len(files),
                   !.nextId = @ + Len(newPdfs)]
    /\ UNCHANGED MergeOthers

MgRemovePdf(id) ==
    /\ mergePage.draggedIndex = 0
    /\ Len(mergePage.pdfs) <= MaxEditLen
    /\ \E i \in 1..Len(mergePage.pdfs) : mergePage.pdfs[i].id = id
    /\ mergePage' = [mergePage EXCEPT !.pdfs = SelectSeq(@, LAMBDA q : q.id # id)]
    /\ UNCHANGED MergeOthers

MgClearAll ==
    /\ mergePage.draggedIndex = 0
    /\ Len(mergePage.pdfs) > 0
    /\ mergePage' = [mergePage EXCEPT !.pdfs = <<>>]
    /\ UNCHANGED MergeOthers

MgHandleDragStart(index) ==
    /\ mergePage.draggedIndex = 0
    /\ Len(mergePage.pdfs) <= MaxEditLen
    /\ index \in 1..Len(mergePage.pdfs)
    /\ mergePage' = [mergePage EXCEPT !.draggedIndex = index]
    /\ UNCHANGED MergeOthers

MgHandleDragOver(index) ==
    /\ index \in 1..Len(mergePage.pdfs)
    /\ mergePage.draggedIndex # 0
    /\ mergePage.draggedIndex # index
    /\ mergePage' = [mergePage EXCEPT
                        !.pdfs = spliceMove(@, mergePage.draggedIndex, index),
                        !.draggedIndex = index]
    /\ UNCHANGED MergeOthers

MgHandleDragEnd ==
    /\ mergePage.draggedIndex # 0
    /\ mergePage' = [mergePage EXCEPT !.draggedIndex = 0]
    /\ UNCHANGED MergeOthers

\* a mergePdfs that would read the list when the merge completes
MgMergeSettleReadsLive(failAt) ==
    /\ mergePage.isMerging
    /\ failAt \in {0, 1, Len(mergePage.captured)}
    /\ mergePage' =
           IF failAt = 0
           THEN [mergePage EXCEPT !.attempted = Len(mergePage.captured),
                                  !.downloaded = TRUE,
                                  !.merged = copyAllPages(mergePage.pdfs),
                                  !.isMerging = FALSE, !.captured = <<>>]
           ELSE [mergePage EXCEPT !.attempted = failAt,
                                  !.error = [kind |-> "failedToMerge", count |-> 0],
                                  !.isMerging = FALSE, !.captured = <<>>]
    /\ UNCHANGED MergeOthers

\* the Merge button (disabled when pdfs.length < 2 || isMerging): mergePdfs up
\* to its first await, holding the pdfs array of the render it was created in
MgMergePdfs ==
    /\ mergePage.draggedIndex = 0
    /\ Len(mergePage.pdfs) >= 2
    /\ ~mergePage.isMerging
    /\ mergePage.merges < MaxMerges
    /\ mergePage' = [mergePage EXCEPT !.isMerging = TRUE, !.error = NoError,
                                      !.captured = mergePage.pdfs,
                                      !.shownTotal = totalPagesOf(mergePage.pdfs),
                                      !.merges = @ + 1,
                                      !.attempted = 0, !.downloaded = FALSE,
                                      !.merged = <<>>]
    /\ UNCHANGED MergeOthers

\* the rest of mergePdfs (lines 83-101): failAt is the listed PDF whose load
\* or copy throws (the first or the last one), 0 when none does; one try
\* encloses the whole loop.  The call then ends and lets go of its list.
MgMergeSettle(failAt) ==
    /\ mergePage.isMerging
    /\ failAt \in {0, 1, Len(mergePage.captured)}
    /\ mergePage' =
           IF failAt = 0
           THEN [mergePage EXCEPT !.attempted = Len(mergePage.captured),
                                  !.downloaded = TRUE,
                                  !.merged = copyAllPages(mergePage.captured),
                                  !.isMerging = FALSE, !.captured = <<>>]
           ELSE [mergePage EXCEPT !.attempted = failAt,
                                  !.error = [kind |-> "failedToMerge", count |-> 0],
                                  !.isMerging = FALSE, !.captured = <<>>]
    /\ UNCHANGED MergeOthers

----------------------------------------------------------------------------
(* ImageToPdfPage (src/app/image-to-pdf/page.tsx, lines 16-333).  A chosen *)
(* file either decodes as an image, with the width and height that        *)
(* getImageDimensions reads, or never fires the onload it waits for.  A    *)
(* jsPDF document is the sequence of its pages; a page is its width and    *)
(* height in the document's unit and the images placed on it.              *)

MaxImageSelect == 2
MaxImageIntakes == 1

\* width and height of the images chosen: a wide one and a tall one
ImageShapes == {<<3, 2>>, <<2, 3>>}

ImageInputs ==
    {[decodes |-> FALSE, width |-> 0, height |-> 0]}
        \cup {[decodes |-> TRUE, width |-> d[1], height |-> d[2]] : d \in ImageShapes}

ImageSelections == SeqsUpTo(ImageInputs, MaxImageSelect)

PageSizes == {"fit", "a4", "letter"}
Orientations == {"portrait", "landscape"}

\* the ImageFile objects pushed for files, with ids from firstId on
newImagesOf(files, firstId) ==
    [i \in 1..Len(files) |-> [id |-> firstId + i - 1,
                              width |-> files[i].width, height |-> files[i].height]]

\* the named page formats of jsPDF as <<width, height>> in tenths of a
\* millimetre
namedFormat(pageSize) ==
    IF pageSize = "a4" THEN <<2100, 2970>> ELSE <<2159, 2794>>

\* the page jsPDF begins for a format and an orientation: the two sides are
\* exchanged when they contradict the orientation
beginPage(format, orientation) ==
    LET swap == IF orientation = "landscape" THEN format[2] > format[1]
                ELSE format[1] > format[2]
    IN  [width |-> IF swap THEN format[2] ELSE format[1],
         height |-> IF swap THEN format[1] ELSE format[2],
         placed |-> <<>>]

\* an orientation that is portrait whatever the image, in place of the one
\* convertToPdf derives
fitOrientationAlwaysPortrait(img) == "portrait"

\* the orientation convertToPdf passes for an image in 'fit' mode
fitOrientation(img) == IF img.width > img.height THEN "landscape" ELSE "portrait"

\* new jsPDF({orientation, unit, format}): a document with its initial page
newJsPDF(images, pageSize, orientation) ==
    IF pageSize = "fit"
    THEN <<beginPage(<<images[1].width, images[1].height>>, fitOrientation(images[1]))>>
    ELSE <<beginPage(namedFormat(pageSize), orientation)>>

\* pdf.addPage(format, orientation): one more page, which becomes current
addPage(pdf, format, orientation) == Append(pdf, beginPage(format, orientation))

\* pdf.addImage(...): the image is drawn on the current page, the last one
addImage(pdf, img) ==
    [pdf EXCEPT ![Len(pdf)] = [@ EXCEPT !.placed = Append(@, img.id)]]

\* the document after the first i passes of the loop of convertToPdf
RECURSIVE pdfAfter(_, _, _, _)
pdfAfter(images, pageSize, orientation, i) ==
    IF i = 0 THEN newJsPDF(images, pageSize, orientation)
    ELSE LET before == pdfAfter(images, pageSize, orientation, i - 1)
             img == images[i]
             paged == IF i = 1 THEN before
                      ELSE IF pageSize = "fit"
                      THEN addPage(before, <<img.width, img.height>>, fitOrientation(img))
                      ELSE addPage(before, namedFormat(pageSize), orientation)
         IN  addImage(paged, img)

\* the files handled before the first one that does not decode
RECURSIVE decodedPrefix(_)
decodedPrefix(files) ==
    IF files = <<>> \/ ~Head(files).decodes THEN <<>>
    ELSE <<Head(files)>> \o decodedPrefix(Tail(files))

ImagePdfPageInit ==
    imagePdfPage = [images |-> <<>>, isConverting |-> FALSE, draggedIndex |-> 0,
                    error |-> NoError,
                    pageSize |-> "fit", orientation |-> "portrait",
                    loading |-> <<>>, inIntake |-> FALSE, intakes |-> 0, nextId |-> 1,
                    attemptedFiles |-> 0, stalled |-> FALSE,
                    attempted |-> 0,
                    downloaded |-> FALSE, pdfPages |-> <<>>]

\* a step that hands nothing to downloadFile: pdfPages is the document of
\* the download made in the step, attempted the images it reached
noDownload(page) ==
    [page EXCEPT !.attempted = 0, !.downloaded = FALSE, !.pdfPages = <<>>]

ImageOthers == <<bmpVars, dropzone, batch, mergePage, pdfImagePage, testPage,
                 resizePage, convertCall>>

\* handleFilesSelected up to its first await (lines 24-28)
ImHandleFilesSelected(files) ==
    /\ imagePdfPage.draggedIndex = 0
    /\ ~imagePdfPage.inIntake
    /\ imagePdfPage.intakes < MaxImageIntakes
    /\ imagePdfPage' = noDownload([imagePdfPage EXCEPT
            !.loading = files,
            !.inIntake = TRUE,
            !.intakes = @ + 1])
    /\ UNCHANGED ImageOthers

\* every file decoded: the loop ends and setImages appends (lines 27-40)
ImFilesLoaded ==
    /\ imagePdfPage.inIntake
    /\ decodedPrefix(imagePdfPage.loading) = imagePdfPage.loading
    /\ LET files == imagePdfPage.loading
           newImages == newImagesOf(files, imagePdfPage.nextId)
       IN  imagePdfPage' = noDownload([imagePdfPage EXCEPT
               !.images = @ \o newImages,
               !.inIntake = FALSE,
               !.loading = <<>>,
               !.nextId = @ + Len(newImages),
               !.attemptedFiles = Len(files),
               !.stalled = FALSE])
    /\ UNCHANGED ImageOthers

\* a file does not decode: the promise of getImageDimensions (no onerror,
\* lines 51-57) never settles, the handler stays at that await for good and
\* setImages is never reached
ImFilesStall ==
    /\ imagePdfPage.inIntake
    /\ decodedPrefix(imagePdfPage.loading) # imagePdfPage.loading
    /\ imagePdfPage' = noDownload([imagePdfPage EXCEPT
            !.inIntake = FALSE,
            !.loading = <<>>,
            !.attemptedFiles = Len(decodedPrefix(imagePdfPage.loading)) + 1,
            !.stalled = TRUE])
    /\ UNCHANGED ImageOthers

ImRemoveImage(id) ==
    /\ imagePdfPage.draggedIndex = 0
    /\ Len(imagePdfPage.images) <= MaxEditLen
    /\ \E i \in 1..Len(imagePdfPage.images) : imagePdfPage.images[i].id = id
    /\ imagePdfPage' = noDownload([imagePdfPage EXCEPT
            !.images = SelectSeq(@, LAMBDA q : q.id # id)])
    /\ UNCHANGED ImageOthers

\* the Clear all buttons: setImages([])
ImClearAll ==
    /\ imagePdfPage.draggedIndex = 0
    /\ Len(imagePdfPage.images) > 0
    /\ imagePdfPage' = noDownload([imagePdfPage EXCEPT !.images = <<>>])
    /\ UNCHANGED ImageOthers

ImHandleDragStart(index) ==
    /\ imagePdfPage.draggedIndex = 0
    /\ Len(imagePdfPage.images) <= MaxEditLen
    /\ index \in 1..Len(imagePdfPage.images)
    /\ imagePdfPage' = noDownload([imagePdfPage EXCEPT
            !.draggedIndex = index])
    /\ UNCHANGED ImageOthers

ImHandleDragOver(index) ==
    /\ index \in 1..Len(imagePdfPage.images)
    /\ imagePdfPage.draggedIndex # 0
    /\ imagePdfPage.draggedIndex # index
    /\ imagePdfPage' = noDownload([imagePdfPage EXCEPT
            !.images = spliceMove(@, imagePdfPage.draggedIndex, index),
            !.draggedIndex = index])
    /\ UNCHANGED ImageOthers

ImHandleDragEnd ==
    /\ imagePdfPage.draggedIndex # 0
    /\ imagePdfPage' = noDownload([imagePdfPage EXCEPT !.draggedIndex = 0])
    /\ UNCHANGED ImageOthers

\* the Page Size radio buttons, shown while images are listed
ImSetPageSize(pageSize) ==
    /\ imagePdfPage.draggedIndex = 0
    /\ Len(imagePdfPage.images) > 0
    /\ pageSize \in PageSizes
    /\ pageSize # imagePdfPage.pageSize
    /\ imagePdfPage' = noDownload([imagePdfPage EXCEPT !.pageSize = pageSize])
    /\ UNCHANGED ImageOthers

\* the Orientation radio buttons, shown while the page size is not 'fit'
ImSetOrientation(orientation) ==
    /\ imagePdfPage.draggedIndex = 0
    /\ Len(imagePdfPage.images) > 0
    /\ imagePdfPage.pageSize # "fit"
    /\ orientation \in Orientations
    /\ orientation # imagePdfPage.orientation
    /\ imagePdfPage' = noDownload([imagePdfPage EXCEPT
            !.orientation = orientation])
    /\ UNCHANGED ImageOthers

\* the Convert button: convertToPdf up to the end of its synchronous part;
\* nothing is awaited inside, so the whole handler is one step.  failAt is
\* the image whose addImage throws, 0 when none does.
ImConvertToPdf(failAt) ==
    /\ imagePdfPage.draggedIndex = 0
    /\ Len(imagePdfPage.images) > 0
    /\ ~imagePdfPage.isConverting
    /\ failAt \in 0..Len(imagePdfPage.images)
    /\ imagePdfPage' =
           IF failAt = 0
           THEN [imagePdfPage EXCEPT
                    !.error = NoError,
                    !.attempted = Len(imagePdfPage.images),
                    !.downloaded = TRUE,
                    !.pdfPages = pdfAfter(imagePdfPage.images, imagePdfPage.pageSize,
                                          imagePdfPage.orientation,
                                          Len(imagePdfPage.images))]
           ELSE [imagePdfPage EXCEPT
                    !.error = [kind |-> "failedToCreate", count |-> 0],
                    !.attempted = failAt,
                    !.downloaded = FALSE, !.pdfPages = <<>>]
    /\ UNCHANGED ImageOthers

----------------------------------------------------------------------------
(* PdfToImagePage (src/unnamed/part_004).  A PDF either fails to open or   *)
(* has numPages >= 1 pages; rendering any page may throw.                  *)

MaxDocPages == 3
MaxConversions == 2

NoFile == [present |-> FALSE, loads |-> FALSE, numPages |-> 1]

PdfDocs ==
    {[present |-> TRUE, loads |-> FALSE, numPages |-> 1]}
        \cup {[present |-> TRUE, loads |-> TRUE, numPages |-> n] : n \in 1..MaxDocPages}

\* Math.round((i / numPages) * 100); exact for the page counts considered,
\* where 100 * i / numPages never ends in .5
progressAt(i, numPages) == (200 * i + numPages) \div (2 * numPages)

PdfImagePageInit ==
    pdfImagePage = [file |-> NoFile, isConverting |-> FALSE, progress |-> 0,
                    pages |-> <<>>, error |-> NoError,
                    stage |-> "idle", source |-> NoFile, convertedPages |-> <<>>,
                    i |-> 0, attempted |-> 0, conversions |-> 0]

PdfImageOthers == <<bmpVars, dropzone, batch, mergePage, imagePdfPage, testPage,
                    resizePage, convertCall>>

\* handleFilesSelected (lines 29-35); the dropzone has multiple = false
PiHandleFilesSelected(files) ==
    /\ Len(files) > 0
    /\ pdfImagePage' = [pdfImagePage EXCEPT !.file = files[1], !.pages = <<>>,
                                            !.error = NoError]
    /\ UNCHANGED PdfImageOthers

\* the Convert button, shown when file && pages.length === 0 && !error and
\* disabled while isConverting: convertPdfToImages up to its first await
PiConvertPdfToImages ==
    /\ pdfImagePage.file.present
    /\ pdfImagePage.pages = <<>>
    /\ pdfImagePage.error = NoError
    /\ ~pdfImagePage.isConverting
    /\ pdfImagePage.conversions < MaxConversions
    /\ pdfImagePage' = [pdfImagePage EXCEPT
                           !.isConverting = TRUE, !.progress = 0, !.pages = <<>>,
                           !.error = NoError,
                           !.stage = "loading", !.source = pdfImagePage.file,
                           !.convertedPages = <<>>, !.i = 0, !.attempted = 0,
                           !.conversions = @ + 1]
    /\ UNCHANGED PdfImageOthers

\* the catch block and the statement after it (lines 84-89)
conversionFailed(pg) ==
    [pg EXCEPT !.error = [kind |-> "failedToConvert", count |-> 0],
               !.isConverting = FALSE, !.stage = "idle"]

\* lines 46-50: the document opens, or getDocument rejects
PiGetDocument ==
    /\ pdfImagePage.stage = "loading"
    /\ pdfImagePage' =
           IF pdfImagePage.source.loads
           THEN [pdfImagePage EXCEPT !.stage = "pages", !.i = 1]
           ELSE conversionFailed(pdfImagePage)
    /\ UNCHANGED PdfImageOthers

\* a loop body that would catch its own failure and go on to the next page
PiConvertPageKeepsGoing(ok) ==
    /\ pdfImagePage.stage = "pages"
    /\ LET i == pdfImagePage.i
           numPages == pdfImagePage.source.numPages
           convertedPages == IF ok THEN Append(pdfImagePage.convertedPages, i)
                             ELSE pdfImagePage.convertedPages
       IN  pdfImagePage' =
               IF i < numPages
               THEN [pdfImagePage EXCEPT !.convertedPages = convertedPages,
                                         !.progress = progressAt(i, numPages),
                                         !.attempted = i, !.i = i + 1]
               ELSE [pdfImagePage EXCEPT !.convertedPages = convertedPages,
                                         !.progress = progressAt(i, numPages),
                                         !.attempted = i,
                                         !.pages = convertedPages,
                                         !.isConverting = FALSE, !.stage = "idle"]
    /\ UNCHANGED PdfImageOthers

\* one turn of the page loop (lines 52-81), with what follows the loop when
\* it was the last page (lines 83, 89); ok = FALSE: getPage or render throws
PiConvertPage(ok) ==
    /\ pdfImagePage.stage = "pages"
    /\ LET i == pdfImagePage.i
           numPages == pdfImagePage.source.numPages
           convertedPages == Append(pdfImagePage.convertedPages, i)
       IN  pdfImagePage' =
               IF ~ok
               THEN conversionFailed([pdfImagePage EXCEPT !.attempted = i])
               ELSE IF i < numPages
               THEN [pdfImagePage EXCEPT !.convertedPages = convertedPages,
                                         !.progress = progressAt(i, numPages),
                                         !.attempted = i, !.i = i + 1]
               ELSE [pdfImagePage EXCEPT !.convertedPages = convertedPages,
                                         !.progress = progressAt(i, numPages),
                                         !.attempted = i,
                                         !.pages = convertedPages,
                                         !.isConverting = FALSE, !.stage = "idle"]
    /\ UNCHANGED PdfImageOthers

----------------------------------------------------------------------------
(* The four batch pages: CompressImagePage (src/unnamed/part_002),         *)
(* ConvertImagePage (src/unnamed/part_003), ResizeImagePage                *)
(* (src/app/resize-image/page.tsx) and ReducePdfPage                       *)
(* (src/app/image-to-pdf/page.tsx, from line 757).  Their handlers         *)
(* handleFilesSelected and compressImages / convertImages /                *)
(* resizeAllImages / compressAllPdfs have the same shape; tool says which  *)
(* page is open.  A file is known by its size; processing it throws or     *)
(* yields a library output of some size.                                   *)

MaxBatch == 2
MaxFileSize == 1
MaxRuns == 1

Tools == {"compress", "convert", "resize", "reducePdf"}

FileSizes == 1..MaxFileSize
OutputSizes == 0..(MaxFileSize + 1)

BatchSelections == SeqsUpTo(FileSizes, MaxBatch)

BatchNoError == [kind |-> "null", succeeded |-> 0, total |-> 0]

\* a choice that always takes the library's output
keepsOriginalNever(tool, size, out) == FALSE

\* whether the entry pushed for a file of the given size holds the original
\* File rather than the library's output of out bytes: part_002 line 52
\* (compressedFile.size < file.size ? compressedFile : file) and page.tsx
\* line 877 (compressedBlob.size >= file.size ? file : compressedBlob).  For
\* the converter and the resizer the entry is what convertImage and
\* resizeImage resolved with, which are modelled on their own below.
keepsOriginal(tool, size, out) ==
    IF tool = "compress" THEN ~(out < size)
    ELSE IF tool = "reducePdf" THEN out >= size
    ELSE FALSE

\* compressedSize: finalFile.size, or line 878 for the PDF reducer
finalSize(tool, size, out) ==
    IF keepsOriginal(tool, size, out) THEN size ELSE out

\* an end of run that reports every failure as a complete one
batchErrorAllOrNothing(prev, succeeded, total, hasErrors) ==
    IF hasErrors
    THEN [kind |-> "failed", succeeded |-> 0, total |-> 0]
    ELSE prev

\* the error set after the loop (part_002 lines 68-72 and the like)
batchError(prev, succeeded, total, hasErrors) ==
    IF succeeded = 0 /\ hasErrors
    THEN [kind |-> "failed", succeeded |-> 0, total |-> 0]
    ELSE IF hasErrors
         THEN [kind |-> "some", succeeded |-> succeeded, total |-> total]
         ELSE prev

RECURSIVE totalSavedOf(_)
totalSavedOf(results) ==
    IF results = <<>> THEN 0
    ELSE (Head(results).originalSize - Head(results).compressedSize)
             + totalSavedOf(Tail(results))

BatchInit ==
    batch \in
        [tool : Tools, files : {<<>>}, results : {<<>>}, isRunning : {FALSE},
         progress : {0}, error : {BatchNoError},
         captured : {<<>>}, i : {0}, compressed : {<<>>}, hasErrors : {FALSE},
         outcomes : {<<>>}, runs : {0}]

BatchOthers == <<bmpVars, dropzone, mergePage, imagePdfPage, pdfImagePage, testPage,
                 resizePage, convertCall>>

BtHandleFilesSelected(selectedFiles) ==
    /\ batch' = [batch EXCEPT !.files = selectedFiles, !.results = <<>>,
                              !.error = BatchNoError]
    /\ UNCHANGED BatchOthers

\* the run button, rendered when files.length > 0 && results.length === 0 &&
\* !isRunning: the handler up to its first await, holding the files array of
\* the render it was created in
BtRun ==
    /\ Len(batch.files) > 0
    /\ batch.results = <<>>
    /\ ~batch.isRunning
    /\ batch.runs < MaxRuns
    /\ batch' = [batch EXCEPT !.isRunning = TRUE, !.progress = 0,
                              !.error = BatchNoError,
                              !.captured = batch.files, !.i = 1,
                              !.compressed = <<>>, !.hasErrors = FALSE,
                              !.outcomes = <<>>, !.runs = @ + 1]
    /\ UNCHANGED BatchOthers

\* one turn of the loop with its own try/catch; after the last turn the
\* statements that follow the loop run in the same continuation
BtItem(ok, out) ==
    /\ batch.isRunning
    /\ LET i == batch.i
           n == Len(batch.captured)
           size == batch.captured[i]
           compressed ==
               IF ok
               THEN Append(batch.compressed,
                           [original |-> i, originalSize |-> size,
                            compressedSize |-> finalSize(batch.tool, size, out),
                            isOriginal |-> keepsOriginal(batch.tool, size, out),
                            output |-> out])
               ELSE batch.compressed
           hasErrors == batch.hasErrors \/ ~ok
           turned == [batch EXCEPT !.compressed = compressed,
                                   !.hasErrors = hasErrors,
                                   !.outcomes = Append(@, ok),
                                   !.progress = IF ok THEN progressAt(i, n) ELSE @,
                                   !.i = i + 1]
       IN  batch' =
               IF i < n THEN turned
               ELSE [turned EXCEPT
                        !.error = batchError(@, Len(compressed), n, hasErrors),
                        !.results = compressed,
                        !.isRunning = FALSE]
    /\ UNCHANGED BatchOthers

NextBatch ==
    \/ \E selectedFiles \in BatchSelections : BtHandleFilesSelected(selectedFiles)
    \/ BtRun
    \/ \E ok \in BOOLEAN, out \in OutputSizes : BtItem(ok, out)

----------------------------------------------------------------------------
(* TestPage (src/app/image-to-pdf/page.tsx, lines 336-724) *)

MaxTestRuns == 2
NumTests == 5

TestNames ==
    <<"Image Compression", "Image Format Conversion", "PDF to Image",
      "Image to PDF", "PDF Merge">>

\* setResults(prev => prev.map(r => r.name === name ? {...r, ...update} : r))
updateResult(results, name, status) ==
    [k \in 1..Len(results) |->
        IF results[k].name = name THEN [results[k] EXCEPT !.status = status]
        ELSE results[k]]

TestPageInit ==
    testPage = [results |-> <<>>, isRunning |-> FALSE, current |-> 0,
                awaiting |-> "none", saved |-> 0, runs |-> 0]

TestOthers == <<bmpVars, dropzone, batch, mergePage, imagePdfPage, pdfImagePage,
                resizePage, convertCall>>

\* the Run All Tests button (disabled while isRunning): runAllTests up to the
\* first await inside testImageCompression (lines 364-396)
TpRunAllTests ==
    /\ ~testPage.isRunning
    /\ testPage.runs < MaxTestRuns
    /\ testPage' =
           [testPage EXCEPT
               !.isRunning = TRUE,
               !.results = updateResult(
                               [k \in 1..NumTests |->
                                   [name |-> TestNames[k], status |-> "pending"]],
                               TestNames[1], "running"),
               !.current = 1, !.awaiting = "test", !.saved = 0,
               !.runs = @ + 1]
    /\ UNCHANGED TestOthers

\* the test in progress comes to its end: inside its own try/catch it either
\* reaches updateResult(passed) or throws and reaches updateResult(failed).
\* The first test passes when the file it keeps is not empty (lines 409-425).
TpTestSettles(ok, size, out) ==
    /\ testPage.awaiting = "test"
    /\ LET name == TestNames[testPage.current]
           finalFileSize == finalSize("compress", size, out)
           passed == IF testPage.current = 1 THEN ok /\ finalFileSize > 0 ELSE ok
       IN  testPage' =
               [testPage EXCEPT
                   !.results = updateResult(@, name,
                                            IF passed THEN "passed" ELSE "failed"),
                   !.saved = IF testPage.current = 1 /\ passed
                             THEN size - finalFileSize ELSE @,
                   !.awaiting = "next"]
    /\ UNCHANGED TestOthers

\* a runAllTests that would give up after a failed test
TpContinueStopsOnFailure ==
    /\ testPage.awaiting = "next"
    /\ testPage' =
           IF testPage.current < NumTests
              /\ testPage.results[testPage.current].status = "passed"
           THEN [testPage EXCEPT
                    !.results = updateResult(@, TestNames[testPage.current + 1],
                                             "running"),
                    !.current = @ + 1, !.awaiting = "test"]
           ELSE [testPage EXCEPT !.isRunning = FALSE, !.awaiting = "none"]
    /\ UNCHANGED TestOthers

\* runAllTests resumes after an await: it enters the next test up to that
\* test's first await, or after the fifth sets isRunning to false
TpContinue ==
    /\ testPage.awaiting = "next"
    /\ testPage' =
           IF testPage.current < NumTests
           THEN [testPage EXCEPT
                    !.results = updateResult(@, TestNames[testPage.current + 1],
                                             "running"),
                    !.current = @ + 1, !.awaiting = "test"]
           ELSE [testPage EXCEPT !.isRunning = FALSE, !.awaiting = "none"]
    /\ UNCHANGED TestOthers

----------------------------------------------------------------------------
(* ResizeImagePage (src/app/resize-image/page.tsx): the settings and the   *)
(* sizes resizeImage computes.  An image file is known by its width and    *)
(* height; loading it may fail.                                            *)

MaxResizeBatch == 2
MaxResizeRuns == 1
MaxSelections == 1

DefaultPercentage == 50
DefaultPixelWidth == 800
DefaultPixelHeight == 600

\* image sides, slider positions (min 10, max 200, step 5) and typed pixel
\* values (min 1, max 10000) the user is given
ImageSides == {2, 45}
PercentageChoices == {DefaultPercentage, 70}
PixelChoices == {3}

ImageFiles == [width : ImageSides, height : ImageSides]
ResizeSelections == SeqsUpTo(ImageFiles, MaxResizeBatch)

\* the (side, percentage) pairs, for sides up to 84 and percentages on the
\* slider, at which side * percentage / 100 ends in .5 and the double product
\* side * (percentage / 100) lies just below it: 45 * 0.7 is
\* 31.499999999999996 and 50 * 1.15 is 57.49999999999999
TiesBelowHalf == {<<45, 70>>, <<50, 115>>}

\* Math.round(n / d) of the exact quotient of non-negative integers
RoundHalfUp(n, d) == (2 * n + d) \div (2 * d)

\* Math.round(img.width * (percentage / 100)) in double arithmetic
scaled(side, percentage) ==
    IF <<side, percentage>> \in TiesBelowHalf
    THEN RoundHalfUp(side * percentage, 100) - 1
    ELSE RoundHalfUp(side * percentage, 100)

\* canvas.width and canvas.height take a non-negative 32-bit value as it is
canvasSide(target) == target

ResizePageInit ==
    resizePage = [files |-> <<>>, resizeMode |-> "percentage",
                  percentage |-> DefaultPercentage,
                  pixelWidth |-> DefaultPixelWidth,
                  pixelHeight |-> DefaultPixelHeight,
                  lockAspectRatio |-> TRUE,
                  originalAspectRatio |-> [width |-> 4, height |-> 3],
                  isResizing |-> FALSE, results |-> <<>>, hasErrors |-> FALSE,
                  reading |-> {}, selections |-> 0,
                  captured |-> [files |-> <<>>, resizeMode |-> "percentage",
                                percentage |-> DefaultPercentage,
                                pixelWidth |-> DefaultPixelWidth,
                                pixelHeight |-> DefaultPixelHeight],
                  i |-> 0, resized |-> <<>>, runs |-> 0]

ResizeOthers == <<bmpVars, dropzone, batch, mergePage, imagePdfPage, pdfImagePage,
                  testPage, convertCall>>

\* the settings panel is rendered (line 219)
SettingsShown ==
    /\ Len(resizePage.files) > 0
    /\ resizePage.results = <<>>
    /\ ~resizePage.isResizing

\* handleFilesSelected up to its await (lines 33-40)
RsHandleFilesSelected(selectedFiles) ==
    /\ resizePage.selections < MaxSelections
    /\ resizePage' =
           [resizePage EXCEPT
               !.files = selectedFiles, !.results = <<>>,
               !.selections = @ + 1,
               !.reading = IF Len(selectedFiles) > 0
                           THEN @ \cup {selectedFiles[1]} ELSE @]
    /\ UNCHANGED ResizeOthers

\* getImageDimensions resolved: the rest of handleFilesSelected (lines 41-43)
RsDimensionsRead(dimensions) ==
    /\ dimensions \in resizePage.reading
    /\ resizePage' =
           [resizePage EXCEPT
               !.pixelWidth = dimensions.width,
               !.pixelHeight = dimensions.height,
               !.originalAspectRatio = dimensions,
               !.reading = @ \ {dimensions}]
    /\ UNCHANGED ResizeOthers

RsSetResizeMode(mode) ==
    /\ SettingsShown
    /\ resizePage' = [resizePage EXCEPT !.resizeMode = mode]
    /\ UNCHANGED ResizeOthers

RsSetPercentage(value) ==
    /\ SettingsShown
    /\ resizePage.resizeMode = "percentage"
    /\ resizePage' = [resizePage EXCEPT !.percentage = value]
    /\ UNCHANGED ResizeOthers

RsSetLockAspectRatio ==
    /\ SettingsShown
    /\ resizePage.resizeMode = "pixels"
    /\ resizePage' = [resizePage EXCEPT !.lockAspectRatio = ~@]
    /\ UNCHANGED ResizeOthers

\* handleWidthChange (lines 59-64); newWidth / (width / height)
RsHandleWidthChange(newWidth) ==
    /\ SettingsShown
    /\ resizePage.resizeMode = "pixels"
    /\ resizePage' =
           [resizePage EXCEPT
               !.pixelWidth = newWidth,
               !.pixelHeight =
                   IF resizePage.lockAspectRatio
                   THEN RoundHalfUp(newWidth * resizePage.originalAspectRatio.height,
                                    resizePage.originalAspectRatio.width)
                   ELSE @]
    /\ UNCHANGED ResizeOthers

\* handleHeightChange (lines 66-71); newHeight * (width / height)
RsHandleHeightChange(newHeight) ==
    /\ SettingsShown
    /\ resizePage.resizeMode = "pixels"
    /\ resizePage' =
           [resizePage EXCEPT
               !.pixelHeight = newHeight,
               !.pixelWidth =
                   IF resizePage.lockAspectRatio
                   THEN RoundHalfUp(newHeight * resizePage.originalAspectRatio.width,
                                    resizePage.originalAspectRatio.height)
                   ELSE @]
    /\ UNCHANGED ResizeOthers

\* the Resize button: resizeAllImages up to its first await, with the files
\* and settings of the render it was created in
RsResizeAllImages ==
    /\ SettingsShown
    /\ resizePage.runs < MaxResizeRuns
    /\ resizePage' =
           [resizePage EXCEPT
               !.isResizing = TRUE,
               !.captured = [files |-> resizePage.files,
                             resizeMode |-> resizePage.resizeMode,
                             percentage |-> resizePage.percentage,
                             pixelWidth |-> resizePage.pixelWidth,
                             pixelHeight |-> resizePage.pixelHeight],
               !.i = 1, !.resized = <<>>, !.hasErrors = FALSE,
               !.runs = @ + 1]
    /\ UNCHANGED ResizeOthers

\* what resizeImage resolves with for one file (lines 100-144)
resizeImage(file, settings) ==
    LET newWidth == IF settings.resizeMode = "percentage"
                    THEN scaled(file.width, settings.percentage)
                    ELSE settings.pixelWidth
        newHeight == IF settings.resizeMode = "percentage"
                     THEN scaled(file.height, settings.percentage)
                     ELSE settings.pixelHeight
    IN  [originalWidth |-> file.width, originalHeight |-> file.height,
         newWidth |-> newWidth, newHeight |-> newHeight,
         canvasWidth |-> canvasSide(newWidth),
         canvasHeight |-> canvasSide(newHeight)]

\* one turn of the loop of resizeAllImages (lines 155-164) and, after the
\* last one, lines 166-173; ok = FALSE: the file does not load
RsItem(ok) ==
    /\ resizePage.isResizing
    /\ LET i == resizePage.i
           n == Len(resizePage.captured.files)
           resized == IF ok
                      THEN Append(resizePage.resized,
                                  resizeImage(resizePage.captured.files[i],
                                              resizePage.captured))
                      ELSE resizePage.resized
       IN  resizePage' =
               IF i < n
               THEN [resizePage EXCEPT !.resized = resized, !.i = i + 1,
                                       !.hasErrors = @ \/ ~ok]
               ELSE [resizePage EXCEPT !.resized = resized, !.i = i + 1,
                                       !.hasErrors = @ \/ ~ok,
                                       !.results = resized,
                                       !.isResizing = FALSE]
    /\ UNCHANGED ResizeOthers

----------------------------------------------------------------------------
(* convertImage of ConvertImagePage (src/unnamed/part_003, lines 62-119).  *)
(* A file name is the sequence of its pieces between dots.                 *)

OutputFormats == {"jpeg", "png", "webp"}

FileNames ==
    {<<"photo", "jpg">>, <<"photo", "JPG">>, <<"scan", "jpeg">>, <<"scan", "Jpeg">>,
     <<"a", "b", "PNG">>, <<"logo", "png">>, <<"img", "webp">>, <<"anim", "gif">>,
     <<"png", "bak">>, <<"jpeg">>, <<"notes">>, <<"draft", "">>}

\* String.prototype.toLowerCase on the pieces that occur
toLowerCase(str) ==
    CASE str = "JPG" -> "jpg"
      [] str = "Jpeg" -> "jpeg"
      [] str = "PNG" -> "png"
      [] OTHER -> str

\* file.name.split('.').pop()
lastPiece(name) == name[Len(name)]

\* a test of the format that knows only the short extension
formatChangedShortOnly(name, format) ==
    LET originalExt == toLowerCase(lastPiece(name))
        targetExt == IF format = "jpeg" THEN "jpg" ELSE format
    IN  originalExt # targetExt

\* lines 96-98
formatChanged(name, format) ==
    LET originalExt == toLowerCase(lastPiece(name))
        targetExt == IF format = "jpeg" THEN "jpg" ELSE format
    IN  originalExt # targetExt /\ originalExt # format

\* what convertImage resolves with (lines 100-107) when the canvas produced
\* a blob of blobSize bytes
convertImage(file, format, blobSize) ==
    LET keepOriginal == blobSize > file.size /\ ~formatChanged(file.name, format)
    IN  [isOriginal |-> keepOriginal,
         size |-> IF keepOriginal THEN file.size ELSE blobSize]

ConvertFiles == [name : FileNames, size : FileSizes]

ConvertCallInit ==
    convertCall = [called |-> FALSE, settled |-> "none",
                   file |-> [name |-> <<"photo", "jpg">>, size |-> 1],
                   format |-> "jpeg", blobSize |-> 0,
                   converted |-> [isOriginal |-> FALSE, size |-> 0]]

ConvertOthers == <<bmpVars, dropzone, batch, mergePage, imagePdfPage, pdfImagePage,
                   testPage, resizePage>>

\* a call of convertImage that resolves
CvResolve(file, format, blobSize) ==
    /\ convertCall' = [called |-> TRUE, settled |-> "resolved",
                       file |-> file, format |-> format, blobSize |-> blobSize,
                       converted |-> convertImage(file, format, blobSize)]
    /\ UNCHANGED ConvertOthers

\* a call that rejects: reader.onerror, img.onerror or the fetch fails
CvReject(file, format) ==
    /\ convertCall' = [called |-> TRUE, settled |-> "rejected",
                       file |-> file, format |-> format, blobSize |-> 0,
                       converted |-> [isOriginal |-> FALSE, size |-> 0]]
    /\ UNCHANGED ConvertOthers

----------------------------------------------------------------------------
(* The specifications: the script, and each component of the application   *)
(* on its own with everything else left as it starts.                      *)

DropzoneIdle ==
    dropzone = [multiple |-> FALSE, maxFiles |-> DefaultMaxFiles, isDragging |-> FALSE,
                selectedFiles |-> <<>>, files |-> NullFileList, calls |-> 0,
                received |-> <<>>, callbacks |-> 0]

BatchIdle ==
    batch = [tool |-> "compress", files |-> <<>>, results |-> <<>>,
             isRunning |-> FALSE, progress |-> 0, error |-> BatchNoError,
             captured |-> <<>>, i |-> 0, compressed |-> <<>>, hasErrors |-> FALSE,
             outcomes |-> <<>>, runs |-> 0]

\* every component as it is mounted, untouched
PagesIdle ==
    /\ DropzoneIdle
    /\ BatchIdle
    /\ MergePageInit
    /\ ImagePdfPageInit
    /\ PdfImagePageInit
    /\ TestPageInit
    /\ ResizePageInit
    /\ ConvertCallInit

Init == BmpIdle /\ PagesIdle

Spec == Init /\ [][Next]_vars

InitDropzone ==
    /\ BmpIdle
    /\ DropzoneInit
    /\ BatchIdle
    /\ MergePageInit
    /\ ImagePdfPageInit
    /\ PdfImagePageInit
    /\ TestPageInit
    /\ ResizePageInit
    /\ ConvertCallInit

SpecDropzone == InitDropzone /\ [][NextDropzone]_vars

InitBatch ==
    /\ BmpIdle
    /\ DropzoneIdle
    /\ BatchInit
    /\ MergePageInit
    /\ ImagePdfPageInit
    /\ PdfImagePageInit
    /\ TestPageInit
    /\ ResizePageInit
    /\ ConvertCallInit

SpecBatch == InitBatch /\ [][NextBatch]_vars

NextMerge ==
    \/ \E files \in PdfSelections : MgHandleFilesSelected(slice(files, BatchMaxFiles))
    \/ \E id \in 1..(mergePage.nextId - 1) : MgRemovePdf(id)
    \/ MgClearAll
    \/ \E index \in 1..Len(mergePage.pdfs) : MgHandleDragStart(index)
    \/ \E index \in 1..Len(mergePage.pdfs) : MgHandleDragOver(index)
    \/ MgHandleDragEnd
    \/ MgMergePdfs
    \/ \E failAt \in 0..Len(mergePage.captured) : MgMergeSettle(failAt)

SpecMerge == Init /\ [][NextMerge]_vars

NextImagePdf ==
    \/ \E files \in ImageSelections : ImHandleFilesSelected(slice(files, ImageMaxFiles))
    \/ ImFilesLoaded
    \/ ImFilesStall
    \/ \E id \in 1..(imagePdfPage.nextId - 1) : ImRemoveImage(id)
    \/ ImClearAll
    \/ \E index \in 1..Len(imagePdfPage.images) : ImHandleDragStart(index)
    \/ \E index \in 1..Len(imagePdfPage.images) : ImHandleDragOver(index)
    \/ ImHandleDragEnd
    \/ \E pageSize \in PageSizes : ImSetPageSize(pageSize)
    \/ \E orientation \in Orientations : ImSetOrientation(orientation)
    \/ \E failAt \in 0..Len(imagePdfPage.images) : ImConvertToPdf(failAt)

SpecImagePdf == Init /\ [][NextImagePdf]_vars

NextPdfImage ==
    \/ \E file \in PdfDocs : PiHandleFilesSelected(slice(<<file>>, 1))
    \/ PiConvertPdfToImages
    \/ PiGetDocument
    \/ \E ok \in BOOLEAN : PiConvertPage(ok)

SpecPdfImage == Init /\ [][NextPdfImage]_vars

NextTest ==
    \/ TpRunAllTests
    \/ \E ok \in BOOLEAN, size \in 0..MaxFileSize, out \in OutputSizes :
           TpTestSettles(ok, size, out)
    \/ TpContinue

SpecTest == Init /\ [][NextTest]_vars

NextResize ==
    \/ \E selectedFiles \in ResizeSelections : RsHandleFilesSelected(selectedFiles)
    \/ \E dimensions \in ImageFiles : RsDimensionsRead(dimensions)
    \/ \E mode \in {"percentage", "pixels"} : RsSetResizeMode(mode)
    \/ \E value \in PercentageChoices : RsSetPercentage(value)
    \/ RsSetLockAspectRatio
    \/ \E newWidth \in PixelChoices : RsHandleWidthChange(newWidth)
    \/ \E newHeight \in PixelChoices : RsHandleHeightChange(newHeight)
    \/ RsResizeAllImages
    \/ \E ok \in BOOLEAN : RsItem(ok)

SpecResize == Init /\ [][NextResize]_vars

NextConvert ==
    \/ \E file \in ConvertFiles, format \in OutputFormats, blobSize \in OutputSizes :
           CvResolve(file, format, blobSize)
    \/ \E file \in ConvertFiles, format \in OutputFormats : CvReject(file, format)

SpecConvert == Init /\ [][NextConvert]_vars

----------------------------------------------------------------------------
(* Claims about the merge-PDF and image-to-PDF lists *)

\* C14: files are merged in the order shown: mergePdfs holds the list that
\* was displayed when Merge was clicked, together with its displayed total
\* page count; when every PDF of it loads, the merged document has that
\* many pages, and they are each listed PDF's pages in their own order, the
\* PDFs in the order of that list, whatever was reordered or removed since.
C14_MergedInOrderShown ==
    [][ /\ (~mergePage.isMerging /\ mergePage'.isMerging) =>
              /\ Len(mergePage.pdfs) >= 2
              /\ mergePage'.captured = mergePage.pdfs
              /\ mergePage'.shownTotal = totalPagesOf(mergePage.pdfs)
        /\ (mergePage.isMerging /\ mergePage'.isMerging) =>
              /\ mergePage'.captured = mergePage.captured
              /\ mergePage'.shownTotal = mergePage.shownTotal
        /\ (mergePage.isMerging /\ mergePage'.downloaded) =>
              /\ Len(mergePage'.merged) = mergePage.shownTotal
              /\ \A k \in 1..Len(mergePage.captured) :
                    \A q \in 1..mergePage.captured[k].pageCount :
                        mergePage'.merged[totalPagesOf(SubSeq(mergePage.captured, 1, k - 1)) + q]
                            = <<mergePage.captured[k].id, q>>
      ]_vars

\* a merge of a two-page PDF and a one-page PDF has been downloaded while
\* the list no longer shows the two in that order
C14_Witness ==
    /\ mergePage.downloaded
    /\ ~mergePage.isMerging
    /\ mergePage.merged = <<<<1, 1>>, <<1, 2>>, <<2, 1>>>>
    /\ Len(mergePage.pdfs) = 2
    /\ mergePage.pdfs[1].id = 2

\* C16: the list of PDFs to merge never holds more than 20 entries and the
\* list of images to convert never holds more than 50 entries
C16_ListsCapped ==
    /\ Len(mergePage.pdfs) <= BatchMaxFiles
    /\ Len(imagePdfPage.images) <= ImageMaxFiles

----------------------------------------------------------------------------
(* Claims about the batch pages *)

\* the number of files of a run that failed
FailedIn(outcomes) == Len(SelectSeq(outcomes, LAMBDA ok : ~ok))

\* C12: when a batch run over n >= 1 files finishes, results.length plus the
\* number of failed files is n, and exactly one outcome is reported: every
\* file failed, results is empty and error is the 'Failed to ...' message;
\* some but not all failed and error is the partial message with
\* results.length of n; none failed, error is null and results.length = n.
C12_BatchOutcome ==
    [][ (batch.isRunning /\ ~batch'.isRunning) =>
            LET n == Len(batch.captured)
                failed == FailedIn(batch'.outcomes)
            IN  /\ n >= 1
                /\ Len(batch'.outcomes) = n
                /\ Len(batch'.results) + failed = n
                /\ failed = n =>
                      /\ batch'.results = <<>>
                      /\ batch'.error = [kind |-> "failed", succeeded |-> 0, total |-> 0]
                /\ (0 < failed /\ failed < n) =>
                      batch'.error = [kind |-> "some",
                                      succeeded |-> Len(batch'.results), total |-> n]
                /\ failed = 0 =>
                      /\ batch'.error = BatchNoError
                      /\ Len(batch'.results) = n
      ]_vars

\* a run over two files ended with one of them failed
C12_Witness ==
    /\ ~batch.isRunning
    /\ batch.outcomes = <<FALSE, TRUE>>
    /\ Len(batch.results) = 1
    /\ batch.error = [kind |-> "some", succeeded |-> 1, total |-> 2]

\* C13: every entry the image compressor or the PDF reducer produces has
\* compressedSize <= originalSize: it holds the library's output only when
\* that is strictly smaller than the original file and the original file
\* otherwise, so the total saved is never negative.
C13_NeverLarger ==
    batch.tool \in {"compress", "reducePdf"} =>
        /\ \A k \in 1..Len(batch.compressed) :
              LET r == batch.compressed[k]
              IN  /\ r.compressedSize <= r.originalSize
                  /\ r.isOriginal <=> ~(r.output < r.originalSize)
                  /\ r.compressedSize = IF r.isOriginal THEN r.originalSize ELSE r.output
        /\ totalSavedOf(batch.compressed) >= 0
        /\ totalSavedOf(batch.results) >= 0

\* the PDF reducer was handed a library output larger than the first file
\* and kept the file, and a smaller one for the second file
C13_Witness ==
    /\ batch.tool = "reducePdf"
    /\ Len(batch.results) = 2
    /\ batch.results[1].output > batch.results[1].originalSize
    /\ batch.results[1].isOriginal
    /\ batch.results[2].output < batch.results[2].originalSize
    /\ ~batch.results[2].isOriginal

----------------------------------------------------------------------------
(* The claim about batches in every tool *)

\* the positions of the items that succeeded, in input order
SuccessIndices(outcomes) ==
    SelectSeq([k \in 1..Len(outcomes) |-> k], LAMBDA k : outcomes[k])

\* the number of files the error of a merge-PDF intake says have failed
FailedPerError(error, offered) ==
    IF error.kind = "failedToLoad" THEN offered
    ELSE IF error.kind = "couldNotBeLoaded" THEN error.count
    ELSE 0

DecodableIn(files) == Len(SelectSeq(files, LAMBDA f : f.decodes))

\* C11: in every tool the items of a batch are attempted independently: when
\* a batch ends every item of it has been attempted, and the ones that
\* succeeded are kept in input order.  In turn: the four batch runs, the
\* pages of a PDF-to-image conversion, the files of an image-to-PDF intake,
\* the images of an image-to-PDF conversion, the files of a merge-PDF
\* intake, the PDFs of a merge.
C11_ItemsIndependent ==
    [][ /\ (batch.isRunning /\ ~batch'.isRunning) =>
              /\ Len(batch'.outcomes) = Len(batch.captured)
              /\ [k \in 1..Len(batch'.results) |-> batch'.results[k].original]
                     = SuccessIndices(batch'.outcomes)
        /\ (pdfImagePage.stage = "pages" /\ ~pdfImagePage'.isConverting) =>
              /\ pdfImagePage'.attempted = pdfImagePage.source.numPages
              /\ pdfImagePage'.pages = pdfImagePage'.convertedPages
        /\ (imagePdfPage.inIntake /\ ~imagePdfPage'.inIntake) =>
              /\ imagePdfPage'.attemptedFiles = Len(imagePdfPage.loading)
              /\ Len(imagePdfPage'.images)
                     = Len(imagePdfPage.images) + DecodableIn(imagePdfPage.loading)
        /\ imagePdfPage'.attempted # 0 =>
              imagePdfPage'.attempted = Len(imagePdfPage.images)
        /\ mergePage'.intakes # mergePage.intakes =>
              Len(mergePage'.pdfs) + FailedPerError(mergePage'.error, mergePage'.offered)
                  = Len(mergePage.pdfs) + mergePage'.offered
        /\ (mergePage.isMerging /\ ~mergePage'.isMerging) =>
              mergePage'.attempted = Len(mergePage.captured)
      ]_vars

----------------------------------------------------------------------------
(* Claims about the PDF-to-image page *)

\* C20: a conversion is all-or-nothing: when convertPdfToImages finishes,
\* either error is null, pages holds the pages 1, 2, ..., numPages of the
\* PDF in ascending order and progress is 100, or error is set and pages is
\* empty; isConverting is false in both cases; and pages never holds a part
\* of a PDF's pages.
C20_AllOrNothing ==
    [][ /\ (pdfImagePage.isConverting /\ ~pdfImagePage'.isConverting) =>
              \/ /\ pdfImagePage'.error = NoError
                 /\ pdfImagePage.source.loads
                 /\ pdfImagePage'.pages
                        = [k \in 1..pdfImagePage.source.numPages |-> k]
                 /\ pdfImagePage'.progress = 100
              \/ /\ pdfImagePage'.error # NoError
                 /\ pdfImagePage'.pages = <<>>
        /\ pdfImagePage'.isConverting => pdfImagePage'.pages = <<>>
        /\ pdfImagePage'.pages # pdfImagePage.pages =>
              \/ pdfImagePage'.pages = <<>>
              \/ pdfImagePage'.pages = [k \in 1..pdfImagePage.source.numPages |-> k]
      ]_vars

\* a conversion of a two-page PDF failed on page 2 after page 1 had been
\* rendered
C20_Witness ==
    /\ ~pdfImagePage.isConverting
    /\ pdfImagePage.error.kind = "failedToConvert"
    /\ pdfImagePage.attempted = 2
    /\ pdfImagePage.convertedPages = <<1>>
    /\ pdfImagePage.progress = 50
    /\ pdfImagePage.pages = <<>>

----------------------------------------------------------------------------
(* Claims about the test page *)

Settled(status) == status \in {"passed", "failed"}

\* C17: runAllTests runs the five tests one at a time in the listed order:
\* a result only moves pending -> running -> passed or failed, at most one
\* result is running at any moment, a test is started only when the ones
\* before it are passed or failed, a failed test does not stop the later
\* ones, and when the run ends isRunning is false and each of the five
\* results is passed or failed.
C17_SequentialTests ==
    /\ [](testPage.runs > 0 =>
            /\ Len(testPage.results) = NumTests
            /\ \A k \in 1..NumTests : testPage.results[k].name = TestNames[k]
            /\ Cardinality({k \in 1..NumTests :
                               testPage.results[k].status = "running"}) <= 1
            /\ \A j, k \in 1..NumTests :
                  (j < k /\ testPage.results[k].status # "pending")
                      => Settled(testPage.results[j].status)
            /\ ~testPage.isRunning =>
                  \A k \in 1..NumTests : Settled(testPage.results[k].status))
    /\ [][ /\ (testPage.isRunning /\ testPage'.isRunning) =>
                 \A k \in 1..NumTests :
                     \/ testPage'.results[k].status = testPage.results[k].status
                     \/ /\ testPage.results[k].status = "pending"
                        /\ testPage'.results[k].status = "running"
                     \/ /\ testPage.results[k].status = "running"
                        /\ Settled(testPage'.results[k].status)
           /\ (testPage.isRunning /\ ~testPage'.isRunning) =>
                 testPage'.results = testPage.results
         ]_vars

\* a run has ended in which the first test failed and the last one passed
C17_Witness ==
    /\ ~testPage.isRunning
    /\ testPage.runs = 1
    /\ testPage.results[1].status = "failed"
    /\ testPage.results[3].status = "failed"
    /\ testPage.results[5].status = "passed"

----------------------------------------------------------------------------
(* Claims about convertImage *)

\* the extensions that stand for a target format
TargetExtensions(format) ==
    IF format = "jpeg" THEN {"jpg", "jpeg"} ELSE {format}

\* the lower-cased extension of a file name: what follows its last dot, the
\* whole name when it has no dot
Extension(name) == toLowerCase(name[Len(name)])

----------------------------------------------------------------------------
(* Claims about the resize page *)

\* C18: in percentage mode every file of a batch is resized to
\* round(originalWidth * percentage / 100) x round(originalHeight *
\* percentage / 100), from its own dimensions; in pixels mode every file is
\* resized to exactly pixelWidth x pixelHeight as set when the run was
\* started; the reported newWidth and newHeight are the size of the canvas.
C18_ResizedSizes ==
    \A k \in 1..Len(resizePage.resized) :
        LET r == resizePage.resized[k]
            settings == resizePage.captured
        IN  /\ settings.resizeMode = "percentage" =>
                  /\ r.newWidth = RoundHalfUp(r.originalWidth * settings.percentage, 100)
                  /\ r.newHeight = RoundHalfUp(r.originalHeight * settings.percentage, 100)
            /\ settings.resizeMode = "pixels" =>
                  /\ r.newWidth = settings.pixelWidth
                  /\ r.newHeight = settings.pixelHeight
            /\ r.canvasWidth = r.newWidth
            /\ r.canvasHeight = r.newHeight

----------------------------------------------------------------------------
(* The claim about the document of the image-to-PDF page *)

\* the width and height of a page of the selected size and orientation
SelectedPage(pageSize, orientation) ==
    LET f == namedFormat(pageSize)
        short == IF f[1] < f[2] THEN f[1] ELSE f[2]
        long == IF f[1] < f[2] THEN f[2] ELSE f[1]
    IN  IF orientation = "portrait" THEN <<short, long>> ELSE <<long, short>>

\* C21: the document convertToPdf downloads has exactly one page per listed
\* image, in list order, each page holding that one image and none blank;
\* in 'fit' mode page i has the width and height of image i, otherwise every
\* page has the selected page size and orientation.
C21_OnePagePerImage ==
    [][ imagePdfPage'.downloaded =>
            LET images == imagePdfPage.images
                pdf == imagePdfPage'.pdfPages
            IN  /\ Len(images) >= 1
                /\ Len(pdf) = Len(images)
                /\ \A i \in 1..Len(pdf) :
                       /\ pdf[i].placed = <<images[i].id>>
                       /\ IF imagePdfPage.pageSize = "fit"
                          THEN <<pdf[i].width, pdf[i].height>>
                                   = <<images[i].width, images[i].height>>
                          ELSE <<pdf[i].width, pdf[i].height>>
                                   = SelectedPage(imagePdfPage.pageSize,
                                                  imagePdfPage.orientation)
      ]_vars

\* a wide image dragged behind a tall one and converted in 'fit' mode: two
\* pages, the tall one first
C21_Witness ==
    /\ imagePdfPage.downloaded
    /\ imagePdfPage.pageSize = "fit"
    /\ Len(imagePdfPage.images) = 2
    /\ imagePdfPage.images[1].id = 2
    /\ imagePdfPage.images[2].id = 1
    /\ imagePdfPage.pdfPages =
           <<[width |-> 2, height |-> 3, placed |-> <<2>>],
             [width |-> 3, height |-> 2, placed |-> <<1>>]>>

----------------------------------------------------------------------------
(* The claim about the progress counter of a batch *)

\* round(i / n * 100): the whole number nearest to 100 * i / n, the upper one
\* of two equally near
RoundedPercent(i, n) ==
    CHOOSE pct \in 0..100 :
        2 * (100 * i - pct * n) <= n /\ 2 * (pct * n - 100 * i) < n

\* C22: a batch run is a sequential iteration with a progress counter: the
\* run starts with progress 0 at the first file; every turn of the loop
\* attempts the next file in index order, one at a time; progress stays
\* within 0..100, never decreases during the run and after a successful
\* file i (0-based) is round((i + 1) / n * 100); when the run ends every file
\* has been attempted once, and progress is 100 whenever at least one file
\* succeeded.
C22_SequentialProgress ==
    [][ /\ batch'.progress \in 0..100
        /\ (~batch.isRunning /\ batch'.isRunning) =>
               /\ batch'.progress = 0
               /\ batch'.i = 1
               /\ batch'.outcomes = <<>>
        /\ (batch.isRunning /\ batch'.outcomes # batch.outcomes) =>
               /\ Len(batch.outcomes) = batch.i - 1
               /\ Len(batch'.outcomes) = batch.i
               /\ batch'.i = batch.i + 1
               /\ batch'.captured = batch.captured
               /\ batch'.progress >= batch.progress
               /\ batch'.outcomes[batch.i] =>
                      batch'.progress = RoundedPercent(batch.i, Len(batch.captured))
        /\ (batch.isRunning /\ batch'.outcomes = batch.outcomes) =>
               /\ batch'.isRunning
               /\ batch'.i = batch.i
               /\ batch'.progress = batch.progress
        /\ (batch.isRunning /\ ~batch'.isRunning) =>
               /\ Len(batch'.outcomes) = Len(batch.captured)
               /\ (\E k \in 1..Len(batch'.outcomes) : batch'.outcomes[k]) =>
                      batch'.progress = 100
      ]_vars

====
